---------------------------- MODULE Spec2Model ----------------------------
(***************************************************************************)
(* Bill-a backend (src/main.py): three POST endpoints that forward a       *)
(* receipt image or a split request to an external language model and      *)
(* relay the model's text.                                                 *)
(*                                                                         *)
(* Text is a sequence of symbols.  Punctuation, the backtick, whitespace   *)
(* and decimal digits are one symbol per character; a run of letters is    *)
(* one symbol (the word "json" is the symbol "json").  Money is counted in *)
(* integer minor currency units.                                           *)
(*                                                                         *)
(* The handlers are coroutines of one event loop.  A handler keeps the     *)
(* loop from the moment it is entered until it returns or reaches an       *)
(* await: /scan awaits file.read(); the model calls are plain invoke(),    *)
(* not awaited.  A request that lacks a declared parameter is answered by  *)
(* the framework (422) and its handler is never entered.                   *)
(***************************************************************************)
EXTENDS Integers, Sequences, FiniteSets, TLC

(***************************************************************************)
(* Text                                                                    *)
(***************************************************************************)
Q == "\""
\* the backtick character
BT == "tick"
SP == " "
NL == "\n"

Whitespace == {SP, NL}
Digits == {"0", "1", "2", "3", "4", "5", "6", "7", "8", "9"}

\* "```json" and "```", the two markers the handlers delete
FenceJson == <<BT, BT, BT, "json">>
Fence == <<BT, BT, BT>>

\* str.replace(old, new): every leftmost non-overlapping occurrence
RECURSIVE Replace(_, _, _)
Replace(s, old, new) ==
    IF Len(s) < Len(old) THEN s
    ELSE IF SubSeq(s, 1, Len(old)) = old
         THEN new \o Replace(SubSeq(s, Len(old) + 1, Len(s)), old, new)
         ELSE <<s[1]>> \o Replace(Tail(s), old, new)

\* str.strip(): leading and trailing whitespace removed
RECURSIVE LStrip(_)
LStrip(s) == IF Len(s) > 0 /\ s[1] \in Whitespace THEN LStrip(Tail(s)) ELSE s

RECURSIVE RStrip(_)
RStrip(s) ==
    IF Len(s) > 0 /\ s[Len(s)] \in Whitespace
    THEN RStrip(SubSeq(s, 1, Len(s) - 1))
    ELSE s

Strip(s) == RStrip(LStrip(s))

\* response.content.replace("```json", "").replace("```", "").strip()
CleanJson(content) ==
    Strip(Replace(Replace(content, FenceJson, <<>>), Fence, <<>>))

(***************************************************************************)
(* JSON values and json.loads                                              *)
(***************************************************************************)
JNull == <<"null">>
JBool(b) == <<"bool", b>>
JNum(n) == <<"num", n>>
JStr(s) == <<"str", s>>
JArr(a) == <<"arr", a>>
JObj(f) == <<"obj", f>>

IsObj(v) == v[1] = "obj"
IsArr(v) == v[1] = "arr"
IsNum(v) == v[1] = "num"
HasKey(v, k) == IsObj(v) /\ k \in DOMAIN v[2]

EmptyMap == [k \in {} |-> JNull]
Put(f, k, v) == [x \in DOMAIN f \cup {k} |-> IF x = k THEN v ELSE f[x]]

Ok(v, n) == [ok |-> TRUE, val |-> v, next |-> n]
Fail == [ok |-> FALSE, val |-> JNull, next |-> 0]

RECURSIVE SkipWs(_, _)
SkipWs(s, i) ==
    IF i <= Len(s) /\ s[i] \in Whitespace THEN SkipWs(s, i + 1) ELSE i

\* position of the quote that closes a string opened before i; 0 when the
\* string is unterminated or holds a raw newline
RECURSIVE ClosingQuote(_, _)
ClosingQuote(s, i) ==
    IF i > Len(s) THEN 0
    ELSE IF s[i] = Q THEN i
    ELSE IF s[i] = NL THEN 0
    ELSE ClosingQuote(s, i + 1)

DigitVal(d) ==
    CASE d = "0" -> 0 [] d = "1" -> 1 [] d = "2" -> 2 [] d = "3" -> 3
      [] d = "4" -> 4 [] d = "5" -> 5 [] d = "6" -> 6 [] d = "7" -> 7
      [] d = "8" -> 8 [] d = "9" -> 9

\* the digits from i on, folded into acc; a leading zero ends the number
RECURSIVE ParseDigits(_, _, _)
ParseDigits(s, i, acc) ==
    IF i <= Len(s) /\ s[i] \in Digits
    THEN ParseDigits(s, i + 1, acc * 10 + DigitVal(s[i]))
    ELSE Ok(JNum(acc), i)

ParseNumber(s, i) ==
    IF s[i] = "0" THEN Ok(JNum(0), i + 1) ELSE ParseDigits(s, i, 0)

ParseString(s, i) ==
    LET j == ClosingQuote(s, i + 1)
    IN  IF j = 0 THEN Fail ELSE Ok(JStr(SubSeq(s, i + 1, j - 1)), j + 1)

RECURSIVE ParseValue(_, _), ParseElements(_, _, _), ParseMembers(_, _, _)

ParseValue(s, i0) ==
    LET i == SkipWs(s, i0)
    IN  IF i > Len(s) THEN Fail
        ELSE IF s[i] = Q THEN ParseString(s, i)
        ELSE IF s[i] \in Digits THEN ParseNumber(s, i)
        ELSE IF s[i] = "null" THEN Ok(JNull, i + 1)
        ELSE IF s[i] = "true" THEN Ok(JBool(TRUE), i + 1)
        ELSE IF s[i] = "false" THEN Ok(JBool(FALSE), i + 1)
        ELSE IF s[i] = "["
             THEN LET k == SkipWs(s, i + 1)
                  IN  IF k <= Len(s) /\ s[k] = "]"
                      THEN Ok(JArr(<<>>), k + 1)
                      ELSE ParseElements(s, i + 1, <<>>)
        ELSE IF s[i] = "{"
             THEN LET k == SkipWs(s, i + 1)
                  IN  IF k <= Len(s) /\ s[k] = "}"
                      THEN Ok(JObj(EmptyMap), k + 1)
                      ELSE ParseMembers(s, i + 1, EmptyMap)
        ELSE Fail

ParseElements(s, i, acc) ==
    LET v == ParseValue(s, i)
        k == SkipWs(s, v.next)
    IN  IF ~v.ok \/ k > Len(s) THEN Fail
        ELSE IF s[k] = "," THEN ParseElements(s, k + 1, Append(acc, v.val))
        ELSE IF s[k] = "]" THEN Ok(JArr(Append(acc, v.val)), k + 1)
        ELSE Fail

ParseMembers(s, i, acc) ==
    LET k == SkipWs(s, i)
        key == IF k <= Len(s) /\ s[k] = Q THEN ParseString(s, k) ELSE Fail
        c == SkipWs(s, key.next)
        v == IF key.ok /\ c <= Len(s) /\ s[c] = ":"
             THEN ParseValue(s, c + 1)
             ELSE Fail
        e == SkipWs(s, v.next)
    IN  IF ~v.ok \/ e > Len(s) THEN Fail
        ELSE IF s[e] = ","
             THEN ParseMembers(s, e + 1, Put(acc, key.val[2], v.val))
        ELSE IF s[e] = "}"
             THEN Ok(JObj(Put(acc, key.val[2], v.val)), e + 1)
        ELSE Fail

\* json.loads(s): one value, then nothing but whitespace
JsonLoads(s) ==
    LET v == ParseValue(s, 1)
    IN  IF v.ok /\ SkipWs(s, v.next) > Len(s) THEN v ELSE Fail

(***************************************************************************)
(* Prompt construction                                                     *)
(***************************************************************************)
B64Alphabet ==
    <<"A", "B", "C", "D", "E", "F", "G", "H", "I", "J", "K", "L", "M",
      "N", "O", "P", "Q", "R", "S", "T", "U", "V", "W", "X", "Y", "Z",
      "a", "b", "c", "d", "e", "f", "g", "h", "i", "j", "k", "l", "m",
      "n", "o", "p", "q", "r", "s", "t", "u", "v", "w", "x", "y", "z",
      "0", "1", "2", "3", "4", "5", "6", "7", "8", "9", "+", "/">>

B64(n) == B64Alphabet[n + 1]

\* base64.b64encode(content).decode("utf-8"), content a sequence of bytes
RECURSIVE b64encode(_)
b64encode(b) ==
    IF Len(b) = 0 THEN <<>>
    ELSE IF Len(b) = 1
         THEN <<B64(b[1] \div 4), B64((b[1] % 4) * 16), "=", "=">>
    ELSE IF Len(b) = 2
         THEN <<B64(b[1] \div 4),
                B64((b[1] % 4) * 16 + b[2] \div 16),
                B64((b[2] % 16) * 4), "=">>
    ELSE <<B64(b[1] \div 4),
           B64((b[1] % 4) * 16 + b[2] \div 16),
           B64((b[2] % 16) * 4 + b[3] \div 64),
           B64(b[3] % 64)>> \o b64encode(SubSeq(b, 4, Len(b)))

\* f"data:{file.content_type};base64,{base64_image}"
DataUri(content_type, base64_image) ==
    <<"data:", content_type, ";base64,">> \o base64_image

\* HumanMessage(content=[text part, image_url part])
ScanMessage(file) ==
    <<[type |-> "text", text |-> <<"Extract all items from this receipt image">>],
      [type |-> "image_url",
       url |-> DataUri(file.content_type, b64encode(file.content))]>>

\* values handed to str.format, tagged with their Python type
PyStr(s) == <<"str", s>>
PyList(l) == <<"list", l>>
PyBool(b) == <<"bool", b>>

RECURSIVE ReprItems(_)
ReprItems(l) ==
    IF Len(l) = 0 THEN <<>>
    ELSE IF Len(l) = 1 THEN <<"'", l[1], "'">>
    ELSE <<"'", l[1], "'", ",", SP>> \o ReprItems(Tail(l))

\* format(value, ""): the text str.format puts in place of a field
PyFormat(v) ==
    IF v[1] = "str" THEN v[2]
    ELSE IF v[1] = "bool" THEN (IF v[2] THEN <<"True">> ELSE <<"False">>)
    ELSE <<"[">> \o ReprItems(v[2]) \o <<"]">>

Lit(t) == <<"lit", t>>
Fld(n) == <<"fld", n>>

\* template.format(**kwargs): fields replaced, unused keywords ignored
RECURSIVE Format(_, _)
Format(template, kwargs) ==
    IF Len(template) = 0 THEN <<>>
    ELSE (IF template[1][1] = "lit"
          THEN <<template[1][2]>>
          ELSE PyFormat(kwargs[template[1][2]]))
         \o Format(Tail(template), kwargs)

SplitTemplate ==
    <<Lit("ACT AS A SENIOR AUDITOR. INPUTS: - PEOPLE:"), Fld("people"),
      Lit("- RECEIPT:"), Fld("receipt"),
      Lit("- INSTRUCTIONS:"), Fld("instruction"),
      Lit("- TAX/SVC INCLUDED:"), Fld("tax_enabled"),
      Lit("ALGORITHM: ... OUTPUT FORMAT: Return ONLY valid JSON.")>>

ChatTemplate ==
    <<Lit("You are a helpful AI Bill Assistant. CONTEXT: - RECEIPT DATA:"),
      Fld("receipt"),
      Lit("- CHAT HISTORY:"), Fld("history"),
      Lit("- USER REQUEST:"), Fld("message"),
      Lit("INSTRUCTIONS: ... OUTPUT FORMAT: Return ONLY valid JSON.")>>

DefaultInstruction == <<"Split everything equally.">>
DefaultCurrency == JStr(<<"RM">>)

\* receipt_obj.get("currency", "RM")
GetCurrency(receipt_obj) ==
    IF <<"currency">> \in DOMAIN receipt_obj[2]
    THEN receipt_obj[2][<<"currency">>]
    ELSE DefaultCurrency

\* the keyword arguments of /split's prompt; apply_tax defaults to True
SplitKwargs(request, curr) ==
    [people |-> PyList(request.people_list),
     receipt |-> PyStr(request.receipt_data),
     instruction |-> PyStr(IF request.user_instruction # <<>>
                           THEN request.user_instruction
                           ELSE DefaultInstruction),
     tax_enabled |-> PyBool(IF "apply_tax" \in DOMAIN request
                            THEN request.apply_tax
                            ELSE TRUE),
     currency |-> curr]

SplitPrompt(request, curr) == Format(SplitTemplate, SplitKwargs(request, curr))

ChatKwargs(request) ==
    [receipt |-> PyStr(request.receipt_data),
     history |-> PyList(request.history),
     message |-> PyStr(request.user_message)]

ChatPrompt(request) == Format(ChatTemplate, ChatKwargs(request))

(***************************************************************************)
(* Inputs: request bodies and texts the external models may return         *)
(***************************************************************************)
MaxRequests == 2

Req == 1..MaxRequests

Key(w) == <<Q, w, Q>>

ReceiptItems ==
    Key("items") \o <<":", "[", "{">> \o Key("name") \o <<":">> \o Key("Soup")
    \o <<",">> \o Key("total_price") \o <<":", "1", "0", "0", "0", "}", "]">>

ReceiptTotals ==
    Key("tax") \o <<":", "1", "0", "0", ",">>
    \o Key("total") \o <<":", "1", "1", "0", "0">>

ReceiptRM ==
    <<"{">> \o ReceiptItems \o <<",">> \o Key("currency") \o <<":">>
    \o Key("RM") \o <<",", SP>> \o ReceiptTotals \o <<"}">>

ReceiptNoCurrency ==
    <<"{">> \o ReceiptItems \o <<",">> \o ReceiptTotals \o <<"}">>

\* a receipt whose item name holds a code-fence marker
ReceiptFenceName ==
    <<"{">> \o Key("items") \o <<":", "[", "{">> \o Key("name")
    \o <<":", Q, "Soup", SP, BT, BT, BT, "json", Q, "}", "]", ",">>
    \o ReceiptTotals \o <<"}">>

Split(a, b) ==
    <<"{">> \o Key("name") \o <<":">> \o Key("A") \o <<",">> \o Key("amount")
    \o <<":">> \o a \o <<"}", ",", "{">> \o Key("name") \o <<":">> \o Key("B")
    \o <<",">> \o Key("amount") \o <<":">> \o b \o <<"}">>

ChatReply(reply, splits) ==
    <<"{">> \o Key("reply") \o <<":", Q>> \o reply \o <<Q, ",">>
    \o Key("splits") \o <<":", "[">> \o splits \o <<"]", "}">>

SplitsExact == ChatReply(<<"Sure">>, Split(<<"5", "5", "0">>, <<"5", "5", "0">>))
SplitsShort == ChatReply(<<"Sure">>, Split(<<"5", "5", "0">>, <<"5", "0", "0">>))
ReplyWithFence ==
    ChatReply(<<"run", SP, BT, BT, BT, "ls", BT, BT, BT>>,
              Split(<<"1", "1", "0", "0">>, <<"0">>))
OnlyTax == <<"{">> \o Key("tax") \o <<":", "1", "0", "0", "}">>
OnlyReply == <<"{">> \o Key("reply") \o <<":">> \o Key("Sure") \o <<"}">>
BareNumber == <<"5">>
EmptyArray == <<"[", SP, "]">>

Documents ==
    {ReceiptRM, ReceiptNoCurrency, ReceiptFenceName, SplitsExact, SplitsShort,
     ReplyWithFence, OnlyTax, OnlyReply, BareNumber}

\* the ways a model wraps a document
Wrap(w, doc) ==
    CASE w = "raw" -> doc
      [] w = "json" -> FenceJson \o <<NL>> \o doc \o <<NL>> \o Fence
      [] w = "plain" -> Fence \o <<NL>> \o doc \o <<NL>> \o Fence
      [] w = "spaced" -> <<SP, NL>> \o FenceJson \o doc \o Fence \o <<NL, NL>>

Fenced == {"json", "plain", "spaced"}
Wrappings == {"raw"} \cup Fenced

Prose == <<"Sorry", SP, "I", SP, "cannot", SP, "read", SP, "this">>
Truncated == <<"{">> \o Key("items") \o <<":", "[">>
Chatty == <<"Here", SP, "you", SP, "go", ":", NL>> \o Wrap("json", SplitsExact)

ModelTexts ==
    {Wrap(w, doc) : w \in Wrappings, doc \in Documents}
    \cup {Prose, Truncated, Chatty, <<>>}

Uploads ==
    <<[content |-> <<77, 97, 110>>, content_type |-> "image/png"],
      [content |-> <<255, 0>>, content_type |-> "image/jpeg"],
      [content |-> <<>>, content_type |-> "text/plain"]>>

EmptyBody == [k \in {} |-> <<>>]

ScanBodies ==
    <<[file |-> Uploads[1]], [file |-> Uploads[2]], [file |-> Uploads[3]],
      EmptyBody>>

People == <<"A", "B">>

SplitBodies ==
    <<[receipt_data |-> ReceiptRM, user_instruction |-> <<>>,
       people_list |-> People, apply_tax |-> TRUE],
      [receipt_data |-> ReceiptNoCurrency,
       user_instruction |-> <<"A", SP, "pays", SP, "for", SP, "everything">>,
       people_list |-> People],
      [receipt_data |-> ReceiptRM, user_instruction |-> <<"no", SP, "tax">>,
       people_list |-> <<"A">>, apply_tax |-> FALSE],
      [receipt_data |-> ReceiptRM, people_list |-> People, apply_tax |-> TRUE],
      [user_instruction |-> <<>>, people_list |-> People],
      [receipt_data |-> Prose, user_instruction |-> <<>>, people_list |-> People],
      [receipt_data |-> EmptyArray, user_instruction |-> <<>>,
       people_list |-> People],
      [receipt_data |-> BareNumber, user_instruction |-> <<"A", SP, "pays">>,
       people_list |-> People]>>

ChatBodies ==
    <<[receipt_data |-> ReceiptRM, history |-> <<>>,
       user_message |-> <<"remove", SP, "tax", SP, "for", SP, "B">>],
      [receipt_data |-> ReceiptNoCurrency, history |-> <<"split", "Sure">>,
       user_message |-> <<"A", SP, "pays">>],
      [receipt_data |-> Prose, history |-> <<"split">>,
       user_message |-> <<"again">>],
      [receipt_data |-> EmptyArray, history |-> <<>>,
       user_message |-> <<"again">>],
      [receipt_data |-> ReceiptRM, user_message |-> <<"again">>],
      [history |-> <<>>, user_message |-> <<"again">>]>>

Endpoints == {"scan", "split", "chat"}

Bodies(ep) ==
    CASE ep = "scan" -> ScanBodies
      [] ep = "split" -> SplitBodies
      [] ep = "chat" -> ChatBodies

\* the fields each route declares without a default
Required(ep) ==
    CASE ep = "scan" -> {"file"}
      [] ep = "split" -> {"receipt_data", "user_instruction", "people_list"}
      [] ep = "chat" -> {"receipt_data", "history", "user_message"}

\* the framework's check of the request against the declared parameters
Valid(ep, b) == Required(ep) \subseteq DOMAIN b

(***************************************************************************)
(* Responses                                                               *)
(***************************************************************************)
NoResponse ==
    [status |-> 0, detail |-> "none", error |-> "none", body |-> JNull]

\* a handler's return value, sent with status 200
Success(v) ==
    [status |-> 200, detail |-> "none", error |-> "none", body |-> v]

\* a handler that returns the message instead of raising
ErrorAsPayload(e) ==
    [status |-> 200, detail |-> "text", error |-> e, body |-> JNull]

\* raise HTTPException(status_code=500, detail=str(e))
ServerError(e) ==
    [status |-> 500, detail |-> "text", error |-> e, body |-> JNull]

\* the framework's answer to a request that fails validation
Unprocessable ==
    [status |-> 422, detail |-> "list", error |-> "RequestValidationError",
     body |-> JNull]

\* a handler that falls back to the raw text when parsing fails
ParsedOrRawText(content) ==
    LET v == JsonLoads(CleanJson(content))
    IN  IF v.ok THEN Success(v.val) ELSE Success(JStr(content))

\* json.loads(clean_json) inside try/except
ParsedOrError(content) ==
    LET v == JsonLoads(CleanJson(content))
    IN  IF v.ok THEN Success(v.val) ELSE ServerError("JSONDecodeError")

\* {"result": response.content}
ResultOf(content) == Success(JObj([k \in {<<"result">>} |-> JStr(content)]))

(***************************************************************************)
(* The server                                                              *)
(***************************************************************************)
VARIABLES
    vision_model,   \* process-wide handle of the vision model
    chat_model,     \* process-wide handle of the text model
    origins,        \* CORS allow-list
    loop,           \* the request whose code the event loop is running, or 0
    pc,             \* where each request stands
    endpoint,       \* the route of each request
    body,           \* the request as received
    prompt,         \* what the request sent to its model
    calls,          \* outbound calls made for the request, per model
    content,        \* what the model answered
    response        \* what the caller receives

vars ==
    <<vision_model, chat_model, origins, loop, pc, endpoint, body, prompt,
      calls, content, response>>

config == <<vision_model, chat_model, origins>>

VisionModel == "gemini-2.5-flash"
ChatModel == "llama-3.3-70b-versatile"
Origins ==
    <<"http://localhost:3000", "https://billa-rho.vercel.app",
      "https://billa-rho.vercel.app/">>

NoContent == <<"none">>
Raised == <<"raise">>
Text(t) == <<"text", t>>
NoCalls == [vision |-> 0, chat |-> 0]

Init ==
    /\ vision_model = VisionModel
    /\ chat_model = ChatModel
    /\ origins = Origins
    /\ loop = 0
    /\ pc = [r \in Req |-> "idle"]
    /\ endpoint = [r \in Req |-> "none"]
    /\ body = [r \in Req |-> EmptyBody]
    /\ prompt = [r \in Req |-> <<>>]
    /\ calls = [r \in Req |-> NoCalls]
    /\ content = [r \in Req |-> NoContent]
    /\ response = [r \in Req |-> NoResponse]

\* a client's request reaches the listening socket
Arrive(r) ==
    /\ pc[r] = "idle"
    /\ pc' = [pc EXCEPT ![r] = "pending"]
    /\ UNCHANGED <<config, loop, endpoint, body, prompt, calls, content, response>>

\* the event loop takes the request, checks it against the route's declared
\* parameters and either answers 422 or enters the handler
Route(r) ==
    /\ pc[r] = "pending"
    /\ loop = 0
    /\ \E ep \in Endpoints : \E i \in 1..Len(Bodies(ep)) :
         LET b == Bodies(ep)[i]
         IN  /\ endpoint' = [endpoint EXCEPT ![r] = ep]
             /\ body' = [body EXCEPT ![r] = b]
             /\ IF Valid(ep, b)
                THEN /\ pc' = [pc EXCEPT ![r] = "handler"]
                     /\ response' = response
                ELSE /\ pc' = [pc EXCEPT ![r] = "done"]
                     /\ response' = [response EXCEPT ![r] = Unprocessable]
    /\ loop' = r
    /\ UNCHANGED <<config, prompt, calls, content>>

\* the outbound call: model.invoke(...) entered, the event loop kept
Invoke(r, model, msg) ==
    /\ prompt' = [prompt EXCEPT ![r] = msg]
    /\ calls' = [calls EXCEPT ![r][model] = @ + 1]
    /\ pc' = [pc EXCEPT ![r] = "invoking"]

\* an exception reaches the handler's except clause
Except(r, e) ==
    /\ response' = [response EXCEPT ![r] = ServerError(e)]
    /\ pc' = [pc EXCEPT ![r] = "done"]

\* /scan: content = await file.read() gives the event loop up
ScanRead(r) ==
    /\ pc[r] = "handler"
    /\ endpoint[r] = "scan"
    /\ loop = r
    /\ pc' = [pc EXCEPT ![r] = "reading"]
    /\ loop' = 0
    /\ UNCHANGED <<config, endpoint, body, prompt, calls, content, response>>

\* /scan resumes with the bytes, builds the message and calls vision_model
ScanInvoke(r) ==
    /\ pc[r] = "reading"
    /\ loop = 0
    /\ loop' = r
    /\ Invoke(r, "vision", ScanMessage(body[r].file))
    /\ UNCHANGED <<config, endpoint, body, content, response>>

\* a handler that contacts the model before it looks at receipt_data
SplitInvokeUnchecked(r) ==
    /\ pc[r] = "handler"
    /\ endpoint[r] = "split"
    /\ loop = r
    /\ Invoke(r, "chat", SplitPrompt(body[r], DefaultCurrency))
    /\ UNCHANGED <<config, loop, endpoint, body, content, response>>

\* /split up to its call: receipt_data is parsed, the prompt is formatted
SplitInvoke(r) ==
    /\ pc[r] = "handler"
    /\ endpoint[r] = "split"
    /\ loop = r
    /\ LET receipt_obj == JsonLoads(body[r].receipt_data)
       IN  IF ~receipt_obj.ok
           THEN Except(r, "JSONDecodeError") /\ UNCHANGED <<prompt, calls>>
           ELSE IF ~IsObj(receipt_obj.val)
           THEN Except(r, "AttributeError") /\ UNCHANGED <<prompt, calls>>
           ELSE /\ Invoke(r, "chat",
                          SplitPrompt(body[r], GetCurrency(receipt_obj.val)))
                /\ UNCHANGED response
    /\ UNCHANGED <<config, loop, endpoint, body, content>>

\* a handler that re-points the process-wide model handle
ChatInvokeSwitchingModel(r) ==
    /\ pc[r] = "handler"
    /\ endpoint[r] = "chat"
    /\ loop = r
    /\ Invoke(r, "chat", ChatPrompt(body[r]))
    /\ chat_model' = VisionModel
    /\ UNCHANGED <<vision_model, origins, loop, endpoint, body, content, response>>

\* /chat_modify up to its call: the prompt is formatted from the request
ChatInvoke(r) ==
    /\ pc[r] = "handler"
    /\ endpoint[r] = "chat"
    /\ loop = r
    /\ Invoke(r, "chat", ChatPrompt(body[r]))
    /\ UNCHANGED <<config, loop, endpoint, body, content, response>>

\* a handler that starts over when its call raises
InvokeRaisesRetry(r) ==
    /\ pc[r] = "invoking"
    /\ content' = [content EXCEPT ![r] = Raised]
    /\ pc' = [pc EXCEPT ![r] = "handler"]
    /\ UNCHANGED <<config, loop, endpoint, body, prompt, calls, response>>

\* the outbound call raises (network, credentials, quota)
InvokeRaises(r) ==
    /\ pc[r] = "invoking"
    /\ content' = [content EXCEPT ![r] = Raised]
    /\ Except(r, "TransportError")
    /\ UNCHANGED <<config, loop, endpoint, body, prompt, calls>>

\* what each handler does with the text its model returned
Returned(ep, t) ==
    IF ep = "split" THEN ResultOf(t) ELSE ParsedOrError(t)

\* the outbound call returns a text and the handler runs to its end
InvokeReturns(r) ==
    /\ pc[r] = "invoking"
    /\ \E t \in ModelTexts :
         /\ content' = [content EXCEPT ![r] = Text(t)]
         /\ response' = [response EXCEPT ![r] = Returned(endpoint[r], t)]
    /\ pc' = [pc EXCEPT ![r] = "done"]
    /\ UNCHANGED <<config, loop, endpoint, body, prompt, calls>>

\* the response goes out; nothing of the request is kept
Send(r) ==
    /\ pc[r] = "done"
    /\ loop = r
    /\ loop' = 0
    /\ pc' = [pc EXCEPT ![r] = "idle"]
    /\ endpoint' = [endpoint EXCEPT ![r] = "none"]
    /\ body' = [body EXCEPT ![r] = EmptyBody]
    /\ prompt' = [prompt EXCEPT ![r] = <<>>]
    /\ calls' = [calls EXCEPT ![r] = NoCalls]
    /\ content' = [content EXCEPT ![r] = NoContent]
    /\ response' = [response EXCEPT ![r] = NoResponse]
    /\ UNCHANGED config

Next ==
    \E r \in Req :
        \/ Arrive(r)
        \/ Route(r)
        \/ ScanRead(r)
        \/ ScanInvoke(r)
        \/ SplitInvoke(r)
        \/ ChatInvoke(r)
        \/ InvokeRaises(r)
        \/ InvokeReturns(r)
        \/ Send(r)

Spec == Init /\ [][Next]_vars


(***************************************************************************)
(* Vocabulary of the properties                                            *)
(***************************************************************************)
Done(r) == pc[r] = "done"
Answered(r) == content[r][1] = "text"
Failed(r) == content[r] = Raised
Entered(r) == pc[r] \in {"handler", "reading", "invoking", "done"}
TotalCalls(r) == calls[r].vision + calls[r].chat
Parseable(t) == JsonLoads(CleanJson(t)).ok
IsJsonObject(t) == JsonLoads(t).ok /\ IsObj(JsonLoads(t).val)
Rejected(r) == Entered(r) /\ ~Valid(endpoint[r], body[r])
Accepted(r) == Entered(r) /\ Valid(endpoint[r], body[r])

TypeOK ==
    /\ loop \in {0} \cup Req
    /\ \A r \in Req :
         /\ pc[r] \in {"idle", "pending", "handler", "reading", "invoking", "done"}
         /\ endpoint[r] \in Endpoints \cup {"none"}
         /\ response[r].status \in {0, 200, 422, 500}
         /\ (loop = r) => pc[r] \in {"handler", "invoking", "done"}

(***************************************************************************)
(* Error handling                                                          *)
(***************************************************************************)
\* C1 as stated: on each of /scan, /split and /chat_modify, a model text
\* that is not valid JSON once the fence markers are stripped never comes
\* back in a success response.
C1_UnparseableIsErrorEverywhere ==
    \A r \in Req :
        (Done(r) /\ Answered(r) /\ ~Parseable(content[r][2]))
            => response[r].status # 200

\* C1 (amended): on /scan and /chat_modify a model text that is not valid
\* JSON once the fence markers are stripped ends in the error response and
\* nothing of the text is returned; /split does not parse the text and
\* returns it unchanged under "result" in a success response.
C1_UnparseableIsErrorWhereParsed ==
    \A r \in Req :
        (Done(r) /\ Answered(r)) =>
            /\ (endpoint[r] \in {"scan", "chat"} /\ ~Parseable(content[r][2]))
                   => (response[r].status = 500 /\ response[r].body = JNull)
            /\ endpoint[r] = "split"
                   => /\ response[r].status = 200
                      /\ response[r].body[2][<<"result">>] = JStr(content[r][2])

C1_Witness ==
    \E r \in Req :
        /\ Done(r) /\ endpoint[r] = "scan"
        /\ content[r] = Text(Prose)
        /\ response[r].status = 500

\* the shapes the callers expect of /scan and /chat_modify
IsReceiptShape(v) ==
    IsObj(v) /\ {<<"items">>, <<"tax">>, <<"total">>} \subseteq DOMAIN v[2]
IsChatShape(v) ==
    IsObj(v) /\ {<<"reply">>, <<"splits">>} \subseteq DOMAIN v[2]

\* C2: on /scan and /chat_modify, valid JSON of the wrong shape ends in an
\* error response, never in a success response carrying the value.
C2_ShapeMismatchIsError ==
    \A r \in Req :
        (Done(r) /\ Answered(r) /\ Parseable(content[r][2])) =>
            LET v == JsonLoads(CleanJson(content[r][2])).val
            IN  /\ (endpoint[r] = "scan" /\ ~IsReceiptShape(v))
                       => response[r].status # 200
                /\ (endpoint[r] = "chat" /\ ~IsChatShape(v))
                       => response[r].status # 200

\* the failures C3 lists
ModelOutputUnparseable(r) == Answered(r) /\ ~Parseable(content[r][2])
ReceiptDataUnusable(r) ==
    /\ endpoint[r] = "split"
    /\ Accepted(r)
    /\ ~IsJsonObject(body[r].receipt_data)
HandlerRaised(r) ==
    \/ Failed(r)
    \/ endpoint[r] \in {"scan", "chat"} /\ ModelOutputUnparseable(r)
    \/ ReceiptDataUnusable(r)

\* C3 as stated: every failure of a request, a missing required field
\* included, ends in status 500 with a textual detail.
C3_EveryFailureIs500 ==
    \A r \in Req :
        (Done(r) /\ (Rejected(r) \/ Failed(r) \/ ModelOutputUnparseable(r)
                       \/ ReceiptDataUnusable(r)))
            => (response[r].status = 500 /\ response[r].detail = "text")

\* C3 (amended): every exception raised while a handler runs (the outbound
\* call raising, unparseable model output on /scan and /chat_modify,
\* receipt_data that is not a JSON object on /split) ends in status 500 with
\* a textual detail; a request that lacks a required field never enters the
\* handler and is answered 422 with a list-valued detail; whatever the
\* outcome, the response can be sent and the request's slot is released.
C3_HandlerFailureIs500 ==
    \A r \in Req :
        /\ Rejected(r)
               => /\ Done(r)
                  /\ response[r].status = 422
                  /\ response[r].detail = "list"
                  /\ TotalCalls(r) = 0
        /\ (Done(r) /\ Accepted(r) /\ HandlerRaised(r))
               => (response[r].status = 500 /\ response[r].detail = "text")
        /\ (Done(r) /\ Accepted(r) /\ ~HandlerRaised(r))
               => response[r].status = 200
        /\ Done(r) => ENABLED Send(r)

C3_Witness ==
    \E r \in Req :
        /\ Done(r) /\ endpoint[r] = "chat" /\ Accepted(r)
        /\ Failed(r)
        /\ response[r].status = 500

(***************************************************************************)
(* Outbound calls                                                          *)
(***************************************************************************)
\* C4: a request makes at most one outbound call, to the model of its own
\* endpoint; once the call has ended (raised or returned) the response is
\* decided at once and no further call is made.
C4_AtMostOneCall ==
    \A r \in Req :
        /\ TotalCalls(r) <= 1
        /\ endpoint[r] = "scan" => calls[r].chat = 0
        /\ endpoint[r] \in {"split", "chat"} => calls[r].vision = 0
        /\ content[r] # NoContent => (Done(r) /\ TotalCalls(r) = 1)

C4_Witness ==
    \E r \in Req :
        /\ Done(r) /\ Failed(r)
        /\ TotalCalls(r) = 1
        /\ response[r].status = 500

\* the sum of the "amount" members of an array of split entries
RECURSIVE SumAmounts(_)
SumAmounts(a) ==
    IF Len(a) = 0 THEN 0 ELSE a[1][2][<<"amount">>][2] + SumAmounts(Tail(a))

IsSplitResult(v) ==
    /\ HasKey(v, <<"splits">>)
    /\ IsArr(v[2][<<"splits">>])
    /\ \A i \in 1..Len(v[2][<<"splits">>][2]) :
         /\ HasKey(v[2][<<"splits">>][2][i], <<"amount">>)
         /\ IsNum(v[2][<<"splits">>][2][i][2][<<"amount">>])

HasTotal(t) ==
    /\ IsJsonObject(t)
    /\ HasKey(JsonLoads(t).val, <<"total">>)
    /\ IsNum(JsonLoads(t).val[2][<<"total">>])

Abs(n) == IF n < 0 THEN -n ELSE n

\* C5: a success response of /chat_modify that carries splits has amounts
\* that sum to the grand total of the request's receipt, within 2 minor
\* units.
C5_AmountsSumToTotal ==
    \A r \in Req :
        (/\ Done(r) /\ endpoint[r] = "chat"
         /\ response[r].status = 200
         /\ IsSplitResult(response[r].body)
         /\ HasTotal(body[r].receipt_data))
            => Abs(SumAmounts(response[r].body[2][<<"splits">>][2])
                   - JsonLoads(body[r].receipt_data).val[2][<<"total">>][2]) <= 2

(***************************************************************************)
(* Concurrency                                                             *)
(***************************************************************************)
\* C6: while a request waits for its outbound model call, the server can
\* take up another request that has arrived.
C6_CallBlocksOnlyItsRequest ==
    \A r1 \in Req : \A r2 \in Req :
        (pc[r1] = "invoking" /\ pc[r2] = "pending") => ENABLED Route(r2)

\* what a request sends and receives, from its own fields alone
OwnPrompt(r) ==
    CASE endpoint[r] = "scan" -> ScanMessage(body[r].file)
      [] endpoint[r] = "split" ->
            SplitPrompt(body[r], GetCurrency(JsonLoads(body[r].receipt_data).val))
      [] endpoint[r] = "chat" -> ChatPrompt(body[r])

OwnResponse(r) ==
    IF Failed(r) THEN ServerError("TransportError")
    ELSE IF endpoint[r] = "split" THEN ResultOf(content[r][2])
    ELSE ParsedOrError(content[r][2])

C7_OwnInputsOnly ==
    \A r \in Req :
        /\ TotalCalls(r) > 0 => prompt[r] = OwnPrompt(r)
        /\ (Done(r) /\ content[r] # NoContent) => response[r] = OwnResponse(r)

Fields(r) ==
    <<pc[r], endpoint[r], body[r], prompt[r], calls[r], content[r], response[r]>>

C7_OneRequestPerStep ==
    \A r1 \in Req : \A r2 \in Req :
        r1 # r2 => (Fields(r1)' = Fields(r1) \/ Fields(r2)' = Fields(r2))

\* C7: under every interleaving, the prompt and the response of a request
\* are determined by its own body and its own model answer, a step touches
\* the fields of one request only, and vision_model, chat_model and origins
\* are never written.
C7_Stateless ==
    /\ [](C7_OwnInputsOnly /\ config = <<VisionModel, ChatModel, Origins>>)
    /\ [][config' = config /\ C7_OneRequestPerStep]_vars

C7_Witness ==
    \E r1 \in Req : \E r2 \in Req :
        /\ pc[r1] = "reading"
        /\ Done(r2) /\ endpoint[r2] = "chat" /\ Answered(r2)
        /\ body[r2].history # <<>>
        /\ response[r2].status = 200

(***************************************************************************)
(* Cleaning and defaults                                                   *)
(***************************************************************************)
\* C8: when the model returns a JSON document wrapped in code-fence markers,
\* /scan and /chat_modify return exactly the value of that document.
C8_CleaningPreservesDocument ==
    \A r \in Req :
        (Done(r) /\ Answered(r) /\ endpoint[r] \in {"scan", "chat"}) =>
            \A doc \in Documents : \A w \in Fenced :
                content[r][2] = Wrap(w, doc)
                    => response[r] = Success(JsonLoads(doc).val)

\* the instruction C9 expects /split to forward
ExpectedInstruction(b) ==
    IF "user_instruction" \in DOMAIN b /\ b.user_instruction # <<>>
    THEN b.user_instruction
    ELSE DefaultInstruction

\* C9: a /split request is accepted whether user_instruction is omitted or
\* empty, and the instruction forwarded is then the equal-split default; a
\* non-empty instruction is forwarded unchanged.
C9_InstructionOptional ==
    \A r \in Req :
        (/\ Entered(r) /\ endpoint[r] = "split"
         /\ {"receipt_data", "people_list"} \subseteq DOMAIN body[r]
         /\ IsJsonObject(body[r].receipt_data))
            => /\ response[r].status # 422
               /\ TotalCalls(r) > 0 =>
                    prompt[r] =
                        Format(SplitTemplate,
                               [people |-> PyList(body[r].people_list),
                                receipt |-> PyStr(body[r].receipt_data),
                                instruction |-> PyStr(ExpectedInstruction(body[r])),
                                tax_enabled |-> PyBool(IF "apply_tax" \in DOMAIN body[r]
                                                       THEN body[r].apply_tax
                                                       ELSE TRUE)])

Currencies == <<JStr(<<"RM">>), JStr(<<"$">>), JNum(5), JNull>>

\* C10: /split looks at receipt_data before it contacts the model, so a
\* receipt_data that is not a JSON object ends in the 500 response with no
\* outbound call; /chat_modify calls its model whatever receipt_data holds;
\* and the currency /split reads changes neither prompt nor response.
C10_ReceiptCheckedBeforeCall ==
    \A r \in Req :
        /\ ReceiptDataUnusable(r)
               => /\ calls[r] = NoCalls
                  /\ pc[r] \in {"handler", "done"}
                  /\ Done(r) => (response[r].status = 500
                                 /\ response[r].detail = "text")
        /\ (endpoint[r] = "chat" /\ Accepted(r) /\ pc[r] # "handler")
               => calls[r].chat = 1
        /\ (endpoint[r] = "split" /\ TotalCalls(r) > 0)
               => /\ \A i \in 1..Len(Currencies) :
                        prompt[r] = SplitPrompt(body[r], Currencies[i])
                  /\ (Done(r) /\ Answered(r))
                        => response[r] = ResultOf(content[r][2])

C10_Witness ==
    \E r \in Req :
        /\ Done(r) /\ endpoint[r] = "split" /\ Accepted(r)
        /\ body[r].receipt_data = EmptyArray
        /\ calls[r] = NoCalls
        /\ response[r].status = 500
=============================================================================
